---- MODULE Spec2Model ----
(***************************************************************************)
(* A model of the rotated-grid crate: the brute-force GridPositionIterator *)
(* (crates/rotated-grid/src/lib.rs) and the scanline OptimalIterator       *)
(* (crates/rotated-grid/src/optimal_iterator.rs), with the Vector, Angle,  *)
(* Line and LineSegment primitives they are built from.                    *)
(*                                                                         *)
(* f64 values are modelled as exact rationals <<n, d>> in lowest terms     *)
(* with d > 0, plus the one non-finite value the code can produce, NaN     *)
(* (0.0 / 0.0, from normalising a zero-length vector), written <<0, 0>>.   *)
(* Angles are the angles whose sine and cosine are rational: a number of   *)
(* quarter turns plus 0, atan(3/4) or atan(4/3); and the huge angles, the  *)
(* finite f64 values so large that adding PI to them rounds back to them.  *)
(* The constructor and the functions of the primitives (normalization,     *)
(* rotation, comparison, intersection) are also modelled as single calls.  *)
(***************************************************************************)
EXTENDS Integers, Sequences, FiniteSets, TLC

VARIABLES
    gp,      \* the GridPositionIterator struct (lib.rs:66-93)
    gpOut,   \* what its caller has observed: last result, points yielded
    opt,     \* the OptimalIterator struct (optimal_iterator.rs:6-29)
    optOut,  \* what its caller has observed
    opt2,    \* a second OptimalIterator, scanning an abutting rectangle
    opt2Out, \* what the second iterator's caller has observed
    call     \* one call of a constructor or of a function: what is called,
             \* its arguments and, once it has ended, how it ended

vars == <<gp, gpOut, opt, optOut, opt2, opt2Out, call>>

----------------------------------------------------------------------------
(* Bounds of the model.                                                    *)

MaxW == 2        \* rectangle widths are 1 .. MaxW
MaxH == 4        \* rectangle heights are 1 .. MaxH
MaxStep == 2     \* grid spacings dx, dy are 1 .. MaxStep
MaxTurn == 3     \* angles given to GridPositionIterator: 0 .. MaxTurn quarter turns
MaxAfter == 2    \* calls to next made after the first None
MaxSpan == 4     \* row spans start and end within MaxSpan half units of 0
MaxTarget == 7   \* find_t is asked for targets x1 in -MaxTarget .. MaxTarget

----------------------------------------------------------------------------
(* f64 as exact rationals.                                                 *)

NaN == <<0, 0>>

IsNaN(a) == a[2] = 0

Abs(i) == IF i < 0 THEN -i ELSE i

RECURSIVE Gcd(_, _)
Gcd(a, b) == IF b = 0 THEN a ELSE Gcd(b, a % b)

\* n / d in lowest terms; 0 / 0 is NaN.  (x / 0 with x # 0, an infinity,
\* does not arise: every divisor of the code is a positive spacing, a
\* vector norm, or a determinant that passed the 1e-6 guard.)
Rat(n, d) ==
    IF d = 0 THEN NaN
    ELSE LET g == Gcd(Abs(n), Abs(d))
             s == IF d < 0 THEN -1 ELSE 1
         IN  <<(s * n) \div g, (s * d) \div g>>

I(n) == <<n, 1>>

Zero == I(0)
One == I(1)
Half == Rat(1, 2)

RAdd(a, b) == IF IsNaN(a) \/ IsNaN(b) THEN NaN
              ELSE Rat(a[1] * b[2] + b[1] * a[2], a[2] * b[2])
RNeg(a) == <<-a[1], a[2]>>
RSub(a, b) == RAdd(a, RNeg(b))
RMul(a, b) == IF IsNaN(a) \/ IsNaN(b) THEN NaN
              ELSE Rat(a[1] * b[1], a[2] * b[2])
RDiv(a, b) == IF IsNaN(a) \/ IsNaN(b) THEN NaN
              ELSE Rat(a[1] * b[2], a[2] * b[1])
RAbs(a) == <<Abs(a[1]), a[2]>>

\* IEEE comparisons: every comparison with NaN is false.
RLt(a, b) == ~IsNaN(a) /\ ~IsNaN(b) /\ a[1] * b[2] < b[1] * a[2]
RLe(a, b) == ~IsNaN(a) /\ ~IsNaN(b) /\ a[1] * b[2] <= b[1] * a[2]
RGt(a, b) == RLt(b, a)
RGe(a, b) == RLe(b, a)

\* f64::floor and f64::ceil, as integers.
Floor(a) == a[1] \div a[2]
\* Rounding down where the code rounds up.
Ceil_RoundedDown(a) == a[1] \div a[2]
Ceil(a) == -((-a[1]) \div a[2])

\* r is an integer multiple of d.
IsMultiple(r, d) == RDiv(r, d)[2] = 1

RMin(a, b) == IF RLt(b, a) THEN b ELSE a
RMax(a, b) == IF RGt(b, a) THEN b ELSE a

\* f64::sqrt on the values the model meets: squares of rationals.
ISqrt(n) == CHOOSE k \in 0..n : k * k = n
RSqrt(a) == <<ISqrt(a[1]), ISqrt(a[2])>>

\* The tolerance of the parallel test, 1e-6.
Epsilon == Rat(1, 1000000)

----------------------------------------------------------------------------
(* Option<T>: None is the empty sequence, Some(v) is <<v>>.                *)

None == <<>>
Some(v) == <<v>>
IsSome(o) == Len(o) = 1
Unwrap(o) == o[1]

----------------------------------------------------------------------------
(* Vector (vector.rs).                                                     *)

Vec(x, y) == [x |-> x, y |-> y]

VAdd(a, b) == Vec(RAdd(a.x, b.x), RAdd(a.y, b.y))
VSub(a, b) == Vec(RSub(a.x, b.x), RSub(a.y, b.y))
VMul(a, k) == Vec(RMul(a.x, k), RMul(a.y, k))
VDiv(a, k) == Vec(RDiv(a.x, k), RDiv(a.y, k))

norm_sq(v) == RAdd(RMul(v.x, v.x), RMul(v.y, v.y))
norm(v) == RSqrt(norm_sq(v))
normalized(v) == VDiv(v, norm(v))

dot(a, b) == RAdd(RMul(a.x, b.x), RMul(a.y, b.y))
cross(a, b) == RSub(RMul(a.x, b.y), RMul(a.y, b.x))

rotate_with(v, sin, cos) ==
    Vec(RSub(RMul(v.x, cos), RMul(v.y, sin)),
        RAdd(RMul(v.x, sin), RMul(v.y, cos)))

rotate_around_with(v, pivot, sin, cos) ==
    LET x0 == RSub(v.x, pivot.x)
        y0 == RSub(v.y, pivot.y)
        x == RSub(RMul(x0, cos), RMul(y0, sin))
        y == RAdd(RMul(x0, sin), RMul(y0, cos))
    IN  Vec(RAdd(x, pivot.x), RAdd(y, pivot.y))

\* Vector::project_out of the inner module: self + direction * t.
vector_project_out(v, direction, t) ==
    Vec(RAdd(v.x, RMul(direction.x, t)), RAdd(v.y, RMul(direction.y, t)))

----------------------------------------------------------------------------
(* GridCoord (grid_coord.rs).                                              *)

\* f64::partial_cmp: no ordering when either side is NaN.
f64_partial_cmp(a, b) ==
    IF IsNaN(a) \/ IsNaN(b) THEN None
    ELSE IF RLt(a, b) THEN Some("Less")
    ELSE IF RGt(a, b) THEN Some("Greater")
    ELSE Some("Equal")

GridCoord_partial_cmp(self, other) ==
    LET Matched(o) == IF o = None THEN f64_partial_cmp(self.x, other.x)
                      ELSE Some(Unwrap(o))
    IN  Matched(f64_partial_cmp(self.y, other.y))

----------------------------------------------------------------------------
(* Angle (angle.rs): quarter turns q plus a base angle b,                  *)
(* b = 0: 0, b = 1: atan(3/4), b = 2: atan(4/3).                           *)

Angle(q, b) == [q |-> q, b |-> b]

\* A finite angle too large for f64 to tell from its neighbours at a
\* distance of PI (1e300 radians, say), of sign s.
HugeAngle(s) == [q |-> s, b |-> 0, huge |-> TRUE]
IsHuge(a) == "huge" \in DOMAIN a

\* A negation that returns the angle as it is.
Angle_neg_Same(a) == a

\* Neg for Angle.
Angle_neg(a) ==
    IF IsHuge(a) THEN HugeAngle(-a.q)
    ELSE IF a.b = 0 THEN Angle(-a.q, 0)
    ELSE Angle(-a.q - 1, 3 - a.b)

BaseSin(b) == IF b = 0 THEN Zero ELSE IF b = 1 THEN Rat(3, 5) ELSE Rat(4, 5)
BaseCos(b) == IF b = 0 THEN One ELSE IF b = 1 THEN Rat(4, 5) ELSE Rat(3, 5)

\* Angle::sin_cos, as <<sin, cos>>.
sin_cos(a) ==
    LET s == BaseSin(a.b)
        c == BaseCos(a.b)
        k == a.q % 4
    IN  IF k = 0 THEN <<s, c>>
        ELSE IF k = 1 THEN <<c, RNeg(s)>>
        ELSE IF k = 2 THEN <<RNeg(s), RNeg(c)>>
        ELSE <<RNeg(c), s>>

\* A rotation in the other sense, clockwise.
rotate_around_Clockwise(v, pivot, angle) ==
    LET sc == sin_cos(angle)
    IN  rotate_around_with(v, pivot, RNeg(sc[1]), sc[2])

rotate_around(v, pivot, angle) ==
    LET sc == sin_cos(angle)
    IN  rotate_around_with(v, pivot, sc[1], sc[2])

\* The angles AngleOps::normalize returns lie strictly between -PI/2 and
\* PI/2: those of them that the model can express.
NormalizedAngles == {Angle(0, b) : b \in 0..2} \cup {Angle(-1, b) : b \in 1..2}

----------------------------------------------------------------------------
(* Line (inner/line.rs) and LineSegment (line_segment.rs).                 *)

Line_new(origin, direction) ==
    [origin |-> origin, direction |-> normalized(direction)]

Line_from_points(a, b) == Line_new(a, VSub(b, a))

Line_project_out(line, t) ==
    Vec(RAdd(line.origin.x, RMul(line.direction.x, t)),
        RAdd(line.origin.y, RMul(line.direction.y, t)))

LineSegment_from_points(a, b) == [origin |-> a, length |-> VSub(b, a)]

LineSegment_normalized(seg) == Line_new(seg.origin, seg.length)

\* Each intermediate value of the function is the parameter of a local
\* operator, so that it is computed once, as the let binding of the code is.
calculate_intersection_t(self, other, max_u) ==
    LET Crossing(det) ==
            IF RLt(RAbs(det), Epsilon) THEN None
            ELSE LET Along(delta, t) ==
                         LET Bounded(u) ==
                                 IF /\ RGe(t, Zero)
                                    /\ RGe(u, Zero)
                                    /\ RLe(u, RMul(max_u, max_u))
                                 THEN Some(t)
                                 ELSE None
                             projected ==
                                 vector_project_out(delta, self.direction, t)
                         IN  Bounded(dot(projected, other.direction))
                     Apart(delta) ==
                         Along(delta, RDiv(cross(other.direction, delta), det))
                 IN  Apart(VSub(self.origin, other.origin))
    IN  Crossing(cross(self.direction, other.direction))

\* Line::intersect_with_line of line.rs, on lines whose direction has any
\* length (the struct as the tests build it).
intersect_with_line(self, other) ==
    LET dx == RSub(self.origin.x, other.origin.x)
        dy == RSub(self.origin.y, other.origin.y)
        determinant ==
            RSub(RMul(other.direction.x, self.direction.y),
                 RMul(other.direction.y, self.direction.x))
        t == RDiv(RSub(RMul(other.direction.x, dy),
                       RMul(other.direction.y, dx)), determinant)
    IN  IF determinant = Zero THEN None
        ELSE Some(Vec(RAdd(self.origin.x, RMul(t, self.direction.x)),
                      RAdd(self.origin.y, RMul(t, self.direction.y))))

----------------------------------------------------------------------------
(* OptimalIterator (optimal_iterator.rs).                                  *)

\* The column cursor starting at the row's start, not on the lattice.
OptimalXIterator_new_FromRowStart(y, center, extent, row_start, row_end, dx, x0) ==
    [x |-> row_start.x, y |-> y, dx |-> dx, row_end |-> row_end.x]

\* OptimalXIterator::new: the column cursor of one row.
OptimalXIterator_new(y, center, extent, row_start, row_end, dx, x0) ==
    LET x_count_half == I(Floor(RMul(RDiv(extent.x, dx), Half)))
        start_x == RAdd(RSub(center.x, RMul(x_count_half, dx)), x0)
        x == RAdd(RMul(I(Ceil(RDiv(RSub(row_start.x, start_x), dx))), dx),
                  start_x)
    IN  [x |-> x, y |-> y, dx |-> dx, row_end |-> row_end.x]

\* The column cursor reporting exhaustion at row_end, not after it.
OptimalXIterator_next_StopAtRowEnd(iter) ==
    IF RGe(iter.x, iter.row_end)
    THEN <<None, iter>>
    ELSE <<Some(iter.x), [iter EXCEPT !.x = RAdd(iter.x, iter.dx)]>>

\* The column cursor advancing by two steps at a time.
OptimalXIterator_next_TwoSteps(iter) ==
    IF RGt(iter.x, iter.row_end)
    THEN <<None, iter>>
    ELSE <<Some(iter.x),
           [iter EXCEPT !.x = RAdd(iter.x, RMul(I(2), iter.dx))]>>

\* OptimalXIterator::next, as <<result, iterator after the call>>.
OptimalXIterator_next(iter) ==
    IF RGt(iter.x, iter.row_end)
    THEN <<None, iter>>
    ELSE <<Some(iter.x), [iter EXCEPT !.x = RAdd(iter.x, iter.dx)]>>

\* OptimalIterator::new.  Measured takes the values of lines 44-50, Rotated
\* the corners of lines 53-56, Extended the extent of lines 65-68, Boxed the
\* corners of lines 69-70 and FirstRow the row phase of lines 75-76.
OptimalIterator_new(tl, tr, bl, br, angle, dx, dy, x0, y0) ==
    LET Measured(sin, cos, rect_width, rect_height, center) ==
          LET Rotated(rtl, rtr, rbl, rbr) ==
                LET Extended(extent) ==
                      LET Boxed(btl, bbr) ==
                            LET FirstRow(start_y) ==
                                  RAdd(RMul(I(Ceil(RDiv(RSub(btl.y, start_y),
                                                        dy))),
                                            dy),
                                       start_y)
                                y_count_half ==
                                  I(Floor(RMul(RDiv(extent.y, dy), Half)))
                            IN  [y |-> FirstRow(
                                     RAdd(RSub(center.y,
                                               RMul(y_count_half, dy)),
                                          y0)),
                                 tl |-> btl,
                                 tr |-> Vec(bbr.x, btl.y),
                                 bl |-> Vec(btl.x, bbr.y),
                                 br |-> bbr,
                                 center |-> center,
                                 extent |-> extent,
                                 delta |-> Vec(dx, dy),
                                 offset |-> Vec(x0, y0),
                                 rect_width |-> rect_width,
                                 rect_height |-> rect_height,
                                 rect_top |-> LineSegment_from_points(rtr, rtl),
                                 rect_left |-> LineSegment_from_points(rtl, rbl),
                                 rect_bottom |->
                                     LineSegment_from_points(rbl, rbr),
                                 rect_right |->
                                     LineSegment_from_points(rtr, rbr),
                                 sin |-> sin,
                                 cos |-> cos,
                                 x_iter |-> None]
                      IN  Boxed(VSub(center, VMul(extent, Half)),
                                VAdd(center, VMul(extent, Half)))
                IN  Extended(Vec(RAdd(RMul(rect_width, cos),
                                      RMul(rect_height, sin)),
                                 RAdd(RMul(rect_width, sin),
                                      RMul(rect_height, cos))))
          IN  Rotated(rotate_around(tl, center, angle),
                      rotate_around(tr, center, angle),
                      rotate_around(bl, center, angle),
                      rotate_around(br, center, angle))
    IN  Measured(sin_cos(angle)[1], sin_cos(angle)[2],
                 norm(VSub(tr, tl)), norm(VSub(bl, tl)),
                 VMul(VAdd(VAdd(VAdd(tl, tr), bl), br), Rat(1, 4)))

\* The parameters t of the edges the ray hits: top, bottom, left, right.
EdgeHits(self, ray) ==
    LET width == self.extent.x
        height == self.extent.y
        top == calculate_intersection_t(
                   ray, LineSegment_normalized(self.rect_top), width)
        bottom == calculate_intersection_t(
                   ray, LineSegment_normalized(self.rect_bottom), width)
        left == calculate_intersection_t(
                   ray, LineSegment_normalized(self.rect_left), height)
        right == calculate_intersection_t(
                   ray, LineSegment_normalized(self.rect_right), height)
    IN  {Unwrap(o) : o \in {h \in {top, bottom, left, right} : IsSome(h)}}

\* min and max start at +inf and -inf and take every Some(t); both are
\* finite exactly when at least one edge was hit.
find_intersections(self, ray) ==
    LET Span(ts) ==
            IF ts = {} THEN None
            ELSE LET min == CHOOSE t \in ts : \A o \in ts : RLe(t, o)
                     max == CHOOSE t \in ts : \A o \in ts : RGe(t, o)
                 IN  Some(<<VAdd(ray.origin, VMul(ray.direction, min)),
                            VAdd(ray.origin, VMul(ray.direction, max))>>)
    IN  Span(EdgeHits(self, ray))

\* The ray of the row at self.y, over the bounding box's width.
RowRay(self) ==
    LET x == self.tl.x
        row_start == Vec(x, self.y)
        row_end == Vec(RAdd(x, self.extent.x), self.y)
    IN  Line_from_points(row_start, row_end)

\* The row scan that also moves the top of the bounding box to the row.
ScanRow_MovingTop(self) ==
    LET Started(found) ==
            IF IsSome(found)
            THEN [self EXCEPT !.x_iter = Some(OptimalXIterator_new(
                     self.y, self.center, self.extent,
                     Unwrap(found)[1], Unwrap(found)[2],
                     self.delta.x, self.offset.x)),
                              !.tl = Vec(self.tl.x, self.y)]
            ELSE self
    IN  Started(find_intersections(self, RowRay(self)))

\* The second half of the loop body of next (lines 163-180): intersect the
\* row at self.y and, if the ray hits the rectangle, start a column cursor.
ScanRow(self) ==
    LET Started(found) ==
            IF IsSome(found)
            THEN [self EXCEPT !.x_iter = Some(OptimalXIterator_new(
                     self.y, self.center, self.extent,
                     Unwrap(found)[1], Unwrap(found)[2],
                     self.delta.x, self.offset.x))]
            ELSE self
    IN  Started(find_intersections(self, RowRay(self)))

\* The loop body rewinding the row cursor when it reports exhaustion.
OptimalLoopBody_Rewind(c) ==
    LET self == c.self
    IN  IF RGt(self.y, self.bl.y)
        THEN [c EXCEPT !.ret = "none",
                       !.self = [self EXCEPT !.y = self.tl.y,
                                             !.x_iter = None]]
        ELSE IF IsSome(self.x_iter)
        THEN LET r == OptimalXIterator_next(Unwrap(self.x_iter))
             IN  IF IsSome(r[1])
                 THEN [c EXCEPT !.ret = "some",
                                !.item = Vec(Unwrap(r[1]), self.y),
                                !.self = [self EXCEPT !.x_iter = Some(r[2])]]
                 ELSE [c EXCEPT
                         !.self = ScanRow([self EXCEPT
                                     !.y = RAdd(self.y, self.delta.y)]),
                         !.rows = c.rows + 1,
                         !.scans = c.scans + 1]
        ELSE [c EXCEPT !.self = ScanRow(self), !.scans = c.scans + 1]

\* The loop advancing the row cursor by two rows at a time.
OptimalLoopBody_SkipRow(c) ==
    LET self == c.self
    IN  IF RGt(self.y, self.bl.y)
        THEN [c EXCEPT !.ret = "none"]
        ELSE IF IsSome(self.x_iter)
        THEN LET r == OptimalXIterator_next(Unwrap(self.x_iter))
             IN  IF IsSome(r[1])
                 THEN [c EXCEPT !.ret = "some",
                                !.item = Vec(Unwrap(r[1]), self.y),
                                !.self = [self EXCEPT !.x_iter = Some(r[2])]]
                 ELSE [c EXCEPT
                         !.self = ScanRow([self EXCEPT
                                     !.y = RAdd(self.y,
                                                RMul(I(2), self.delta.y))]),
                         !.rows = c.rows + 1,
                         !.scans = c.scans + 1]
        ELSE [c EXCEPT !.self = ScanRow(self), !.scans = c.scans + 1]

\* One pass through the loop of OptimalIterator::next on the call record
\* c = [self, ret, rows, scans]: ret is "loop" while the loop runs, rows
\* counts the row advances and scans the calls of find_intersections.
OptimalLoopBody(c) ==
    LET self == c.self
    IN  IF RGt(self.y, self.bl.y)
        THEN [c EXCEPT !.ret = "none"]
        ELSE IF IsSome(self.x_iter)
        THEN LET r == OptimalXIterator_next(Unwrap(self.x_iter))
             IN  IF IsSome(r[1])
                 THEN [c EXCEPT !.ret = "some",
                                !.item = Vec(Unwrap(r[1]), self.y),
                                !.self = [self EXCEPT !.x_iter = Some(r[2])]]
                 ELSE [c EXCEPT
                         !.self = ScanRow([self EXCEPT
                                     !.y = RAdd(self.y, self.delta.y)]),
                         !.rows = c.rows + 1,
                         !.scans = c.scans + 1]
        ELSE [c EXCEPT !.self = ScanRow(self), !.scans = c.scans + 1]

\* OptimalIterator::next: the loop runs until a pass returns.  A pass that
\* neither returns nor changes the iterator repeats forever: the call does
\* not return ("hang").
RECURSIVE OptimalLoop(_)
OptimalLoop(c) ==
    LET After(d) ==
            IF d.ret # "loop" THEN d
            ELSE IF d.self = c.self THEN [d EXCEPT !.ret = "hang"]
            ELSE OptimalLoop(d)
    IN  After(OptimalLoopBody(c))

OptimalIterator_next(self) ==
    OptimalLoop([self |-> self, ret |-> "loop", item |-> Vec(Zero, Zero),
                 failed |-> "", rows |-> 0, scans |-> 0])

----------------------------------------------------------------------------
(* GridPositionIterator (lib.rs).                                          *)

\* The loops of normalize_angle on q quarter turns plus base angle b:
\* alpha >= PI is q >= 2, alpha >= PI/2 is q >= 1, alpha <= -PI is
\* q < -2 or the angle -PI itself, alpha <= -PI/2 is q < -1 or -PI/2 itself.
\* For a huge angle, alpha - PI and alpha + PI round to alpha in f64: the
\* spacing of the f64 values around alpha is more than twice PI.
GePi(a) == IF IsHuge(a) THEN a.q > 0 ELSE a.q >= 2
GeHalfPi(a) == IF IsHuge(a) THEN a.q > 0 ELSE a.q >= 1
LePi(a) == IF IsHuge(a) THEN a.q < 0 ELSE a.q < -2 \/ (a.q = -2 /\ a.b = 0)
LeHalfPi(a) ==
    IF IsHuge(a) THEN a.q < 0 ELSE a.q < -1 \/ (a.q = -1 /\ a.b = 0)

\* alpha += k * PI/2, in f64.
AddQuarters(a, k) == IF IsHuge(a) THEN a ELSE Angle(a.q + k, a.b)

\* A run of the function: the value of alpha, and whether the run is still
\* going to return (a loop whose pass leaves alpha as it was never ends).
Run(alpha) == [alpha |-> alpha, returns |-> TRUE]

RECURSIVE WhileGePi(_)
WhileGePi(r) ==
    IF ~r.returns \/ ~GePi(r.alpha) THEN r
    ELSE IF AddQuarters(r.alpha, -2) = r.alpha
    THEN [r EXCEPT !.returns = FALSE]
    ELSE WhileGePi([r EXCEPT !.alpha = AddQuarters(@, -2)])

RECURSIVE WhileGeHalfPi(_)
WhileGeHalfPi(r) ==
    IF ~r.returns \/ ~GeHalfPi(r.alpha) THEN r
    ELSE IF AddQuarters(r.alpha, -1) = r.alpha
    THEN [r EXCEPT !.returns = FALSE]
    ELSE WhileGeHalfPi([r EXCEPT !.alpha = AddQuarters(@, -1)])

RECURSIVE WhileLePi(_)
WhileLePi(r) ==
    IF ~r.returns \/ ~LePi(r.alpha) THEN r
    ELSE IF AddQuarters(r.alpha, 2) = r.alpha
    THEN [r EXCEPT !.returns = FALSE]
    ELSE WhileLePi([r EXCEPT !.alpha = AddQuarters(@, 2)])

RECURSIVE WhileLeHalfPi(_)
WhileLeHalfPi(r) ==
    IF ~r.returns \/ ~LeHalfPi(r.alpha) THEN r
    ELSE IF AddQuarters(r.alpha, 1) = r.alpha
    THEN [r EXCEPT !.returns = FALSE]
    ELSE WhileLeHalfPi([r EXCEPT !.alpha = AddQuarters(@, 1)])

\* GridPositionIterator::normalize_angle, as a run: its alpha is the value
\* returned when it returns.
normalize_angle(alpha) ==
    WhileLeHalfPi(WhileLePi(WhileGeHalfPi(WhileGePi(Run(alpha)))))

\* AngleOps::normalize of angle.rs: the same four loops.
Angle_normalize(self) ==
    WhileLeHalfPi(WhileLePi(WhileGeHalfPi(WhileGePi(Run(self)))))

\* The body of GridPositionIterator::new after its two assertions, for an
\* angle whose normalization returns.
GridPositionIterator_new(width, height, dx, dy, x0, y0, alpha) ==
    LET sc == sin_cos(normalize_angle(alpha).alpha)
        sin_alpha == sc[1]
        cos_alpha == sc[2]
        rotated_width ==
            RAdd(RMul(RAbs(width), cos_alpha), RMul(RAbs(height), sin_alpha))
        rotated_height ==
            RAdd(RMul(RAbs(width), sin_alpha), RMul(RAbs(height), cos_alpha))
        center_x == RAdd(x0, RMul(width, Half))
        center_y == RAdd(y0, RMul(height, Half))
        offset == Vec(x0, y0)
        tl == VAdd(Vec(Zero, Zero), offset)
        tr == VAdd(Vec(width, Zero), offset)
        bl == VAdd(Vec(Zero, height), offset)
        br == VAdd(Vec(width, height), offset)
    IN  [width |-> width,
         height |-> height,
         rotated_width |-> rotated_width,
         rotated_height |-> rotated_height,
         dx |-> dx,
         dy |-> dy,
         x0 |-> x0,
         y0 |-> y0,
         center_x |-> center_x,
         center_y |-> center_y,
         start_x |-> RSub(center_x, RMul(rotated_width, Half)),
         start_y |-> RSub(center_y, RMul(rotated_height, Half)),
         sin_alpha |-> sin_alpha,
         cos_alpha |-> cos_alpha,
         current_x |-> Zero,
         current_y |-> Zero,
         top |-> Line_from_points(tr, tl),
         left |-> Line_from_points(tl, bl),
         bottom |-> Line_from_points(bl, br),
         right |-> Line_from_points(br, tr),
         hits |-> 0,
         misses |-> 0,
         max_repeats |-> 0]

estimate_max_grid_points(self) ==
    LET num_points_x == Ceil(RDiv(self.width, self.dx))
        num_points_y == Ceil(RDiv(self.height, self.dy))
    IN  num_points_x * num_points_y

\* Iterator::size_hint, as <<lower, upper>>.
size_hint(self) == <<0, Some(estimate_max_grid_points(self))>>

\* find_t rounding the quotient down.
find_t_RoundedDown(x0, dx, x1) ==
    IF dx = Zero
    THEN IF RLe(x1, x0) THEN Some(x0) ELSE None
    ELSE Some(I(Floor(RDiv(RSub(x1, x0), dx))))

\* find_t (lines 326-339).
find_t(x0, dx, x1) ==
    IF dx = Zero
    THEN IF RLe(x1, x0) THEN Some(x0) ELSE None
    ELSE Some(I(Ceil(RDiv(RSub(x1, x0), dx))))

\* The candidate of one pass of the loop of next, in rotated space.
CandidateX(self) == RAdd(self.start_x, self.current_x)
CandidateY(self) == RAdd(self.start_y, self.current_y)

\* The candidate rotated back to the unrotated frame (lines 239-245).
Unrotated(self) ==
    LET x == CandidateX(self)
        y == CandidateY(self)
        inv_sin == RNeg(self.sin_alpha)
        inv_cos == self.cos_alpha
        rx == RSub(x, self.center_x)
        ry == RSub(y, self.center_y)
    IN  Vec(RAdd(RSub(RMul(rx, inv_cos), RMul(ry, inv_sin)), self.center_x),
            RAdd(RAdd(RMul(rx, inv_sin), RMul(ry, inv_cos)), self.center_y))

\* The intersections of the row's ray with the four edges, NaN for None,
\* in the order left, top, right, bottom (lines 247-266).
Thresholds(self) ==
    LET y == CandidateY(self)
        inv_sin == RNeg(self.sin_alpha)
        cos == self.cos_alpha
        center == Vec(self.center_x, self.center_y)
        OrNaN(o) == IF IsSome(o) THEN Unwrap(o) ELSE NaN
        Hits(ray) ==
            <<OrNaN(calculate_intersection_t(ray, self.left, self.height)),
              OrNaN(calculate_intersection_t(ray, self.top, self.width)),
              OrNaN(calculate_intersection_t(ray, self.right, self.height)),
              OrNaN(calculate_intersection_t(ray, self.bottom, self.width))>>
    IN  Hits(Line_new(
                 rotate_around_with(Vec(self.start_x, y), center, inv_sin, cos),
                 rotate_with(Vec(One, Zero), inv_sin, cos)))

\* The folds of lines 267-276: min and max start as NaN.
StepMin(min, value) == IF IsNaN(min) \/ RLt(value, min) THEN value ELSE min
StepMax(max, value) == IF IsNaN(max) \/ RGt(value, max) THEN value ELSE max

ThresholdMin(th) ==
    StepMin(StepMin(StepMin(StepMin(NaN, th[1]), th[2]), th[3]), th[4])
ThresholdMax(th) ==
    StepMax(StepMax(StepMax(StepMax(NaN, th[1]), th[2]), th[3]), th[4])

\* The containment test without its test of the right edge.
Contained_NoRightEdge(self, p) ==
    /\ RGe(p.x, self.x0)
    /\ RGe(p.y, self.y0)
    /\ RLe(p.y, RAdd(self.y0, self.height))

\* The containment test of lines 289-292.
Contained(self, p) ==
    /\ RGe(p.x, self.x0)
    /\ RLe(p.x, RAdd(self.x0, self.width))
    /\ RGe(p.y, self.y0)
    /\ RLe(p.y, RAdd(self.y0, self.height))

\* The cursor update wrapping one column early (>= for >).
Advance_WrapAtWidth(self) ==
    LET cx == RAdd(self.current_x, self.dx)
    IN  IF RGe(cx, self.rotated_width)
        THEN [self EXCEPT !.current_x = Zero,
                          !.current_y = RAdd(self.current_y, self.dy)]
        ELSE [self EXCEPT !.current_x = cx]

\* The cursor update testing the column before stepping it.
Advance_TestBeforeStep(self) ==
    IF RGt(self.current_x, self.rotated_width)
    THEN [self EXCEPT !.current_x = Zero,
                      !.current_y = RAdd(self.current_y, self.dy)]
    ELSE [self EXCEPT !.current_x = RAdd(self.current_x, self.dx)]

\* The cursor update of lines 278-283.
Advance(self) ==
    LET cx == RAdd(self.current_x, self.dx)
    IN  IF RGt(cx, self.rotated_width)
        THEN [self EXCEPT !.current_x = Zero,
                          !.current_y = RAdd(self.current_y, self.dy)]
        ELSE [self EXCEPT !.current_x = cx]

\* The exit test of line 304.
PastTheEnd(self) ==
    \/ RGt(CandidateX(self), RAdd(self.start_x, self.rotated_width))
    \/ RGt(CandidateY(self), RAdd(self.start_y, self.rotated_height))

\* One pass through the loop of GridPositionIterator::next on the call
\* record c = [self, ret, item, failed, repeats]; debug says whether the
\* build has debug assertions (the counters exist only then).
GridLoopBody(c, debug) ==
    LET Pass(self, x, p, th, moved) ==
          IF Contained(self, p)
          THEN IF debug /\ ~RGe(x, ThresholdMin(th))
               THEN [c EXCEPT !.ret = "panic", !.failed = "x >= min",
                              !.self = moved]
               ELSE IF debug /\ ~RLe(x, ThresholdMax(th))
               THEN [c EXCEPT !.ret = "panic", !.failed = "x <= max",
                              !.self = moved]
               ELSE [c EXCEPT
                       !.ret = "some",
                       !.item = p,
                       !.self = IF debug
                                THEN [moved EXCEPT !.hits = @ + 1]
                                ELSE moved]
          ELSE IF PastTheEnd(self)
          THEN IF debug /\ ~(moved.hits <= estimate_max_grid_points(moved))
               THEN [c EXCEPT !.ret = "panic", !.self = moved,
                              !.failed = "hits <= estimate_max_grid_points()"]
               ELSE [c EXCEPT !.ret = "none", !.self = moved]
          ELSE [c EXCEPT
                  !.repeats = IF debug THEN @ + 1 ELSE @,
                  !.self = IF debug
                           THEN [moved EXCEPT
                                   !.misses = @ + 1,
                                   !.max_repeats =
                                       IF c.repeats + 1 > @
                                       THEN c.repeats + 1 ELSE @]
                           ELSE moved]
    IN  Pass(c.self, CandidateX(c.self), Unrotated(c.self),
             Thresholds(c.self), Advance(c.self))

RECURSIVE GridLoop(_, _)
GridLoop(c, debug) ==
    LET After(d) == IF d.ret # "loop" THEN d ELSE GridLoop(d, debug)
    IN  After(GridLoopBody(c, debug))

GridPositionIterator_next(self, debug) ==
    GridLoop([self |-> self, ret |-> "loop", item |-> Vec(Zero, Zero),
              failed |-> "", repeats |-> 0, rows |-> 0, scans |-> 0], debug)

----------------------------------------------------------------------------
(* The inputs.                                                             *)

Widths == {I(k) : k \in 1..MaxW}
Heights == {I(k) : k \in 1..MaxH}
Steps == {I(k) : k \in 1..MaxStep}
\* The offsets x0, y0: the phases -1/2, 0 and 1/2.
Offsets == {Rat(-1, 2), Zero, Half}

Args(width, height, dx, dy, x0, y0, angle) ==
    [width |-> width, height |-> height, dx |-> dx, dy |-> dy,
     x0 |-> x0, y0 |-> y0, angle |-> angle]

\* The grid of the crate's example and benchmark: 16 x 10, spacing 7.
ExampleArgs == Args(I(16), I(10), I(7), I(7), Zero, Zero, Angle(0, 0))

\* Arguments of OptimalIterator::new: angles of the normalized range.
OptimalArgs ==
    {Args(w, h, dx, dy, x0, y0, a) :
        w \in Widths, h \in Heights, dx \in Steps, dy \in Steps,
        x0 \in Offsets, y0 \in Offsets, a \in NormalizedAngles}
    \cup {ExampleArgs}

\* The corners of the axis-aligned rectangle of a at origin o.
Corners(o, a) ==
    [tl |-> o,
     tr |-> VAdd(o, Vec(a.width, Zero)),
     bl |-> VAdd(o, Vec(Zero, a.height)),
     br |-> VAdd(o, Vec(a.width, a.height))]

Origin == Vec(Zero, Zero)

NewOptimal(o, a) ==
    LET c == Corners(o, a)
    IN  OptimalIterator_new(c.tl, c.tr, c.bl, c.br, a.angle,
                            a.dx, a.dy, a.x0, a.y0)

\* The caller's view of an iterator: the arguments and origin it was built
\* from, the last result of next ("fresh" before the first call), the points
\* yielded so far, the work of the last call, the calls made after None,
\* whether the build has debug assertions, and the assertion that failed.
Fresh(o, a) ==
    [args |-> a, origin |-> o, ret |-> "fresh", item |-> Vec(Zero, Zero),
     yielded |-> <<>>, rows |-> 0, scans |-> 0, after |-> 0,
     debug |-> FALSE, failed |-> ""]

Idle == <<>>

----------------------------------------------------------------------------
(* The scanline iterator alone.                                            *)

\* What the caller records of a call of next that ended as c.
Observe(out, c) ==
    [out EXCEPT !.ret = c.ret,
                !.item = c.item,
                !.yielded = IF c.ret = "some" THEN Append(@, c.item) ELSE @,
                !.rows = c.rows,
                !.scans = c.scans,
                !.failed = c.failed,
                !.after = IF out.ret = "none" THEN @ + 1 ELSE @]

CanCall(out) ==
    /\ out.ret \notin {"hang", "panic"}
    /\ out.ret = "none" => out.after < MaxAfter

InitOptimal ==
    /\ \E a \in OptimalArgs :
          /\ opt = NewOptimal(Origin, a)
          /\ optOut = Fresh(Origin, a)
    /\ gp = Idle /\ gpOut = Idle /\ opt2 = Idle /\ opt2Out = Idle
    /\ call = Idle

\* The caller calls OptimalIterator::next.
OptimalNext ==
    /\ CanCall(optOut)
    /\ LET c == OptimalIterator_next(opt)
       IN  /\ opt' = c.self
           /\ optOut' = Observe(optOut, c)
    /\ UNCHANGED <<gp, gpOut, opt2, opt2Out, call>>

SpecOptimal == InitOptimal /\ [][OptimalNext]_vars

----------------------------------------------------------------------------
(* The brute-force iterator alone.                                         *)

\* The angles given to GridPositionIterator::new: whole quarter turns, and
\* the angles of the normalized range.
GridAngles == {Angle(q, 0) : q \in -1..MaxTurn} \cup NormalizedAngles

GridArgs ==
    {Args(w, h, dx, dy, x0, y0, a) :
        w \in Widths, h \in Heights, dx \in Steps, dy \in Steps,
        x0 \in Offsets, y0 \in Offsets, a \in GridAngles}
    \cup {ExampleArgs}

NewGrid(a) ==
    GridPositionIterator_new(a.width, a.height, a.dx, a.dy, a.x0, a.y0,
                             a.angle)

InitGrid ==
    /\ \E a \in GridArgs, debug \in BOOLEAN :
          /\ gp = NewGrid(a)
          /\ gpOut = [Fresh(Vec(a.x0, a.y0), a) EXCEPT !.debug = debug]
    /\ opt = Idle /\ optOut = Idle /\ opt2 = Idle /\ opt2Out = Idle
    /\ call = Idle

\* The caller calls GridPositionIterator::next.
GridNext ==
    /\ CanCall(gpOut)
    /\ LET c == GridPositionIterator_next(gp, gpOut.debug)
       IN  /\ gp' = c.self
           /\ gpOut' = Observe(gpOut, c)
    /\ UNCHANGED <<opt, optOut, opt2, opt2Out, call>>

SpecGrid == InitGrid /\ [][GridNext]_vars

----------------------------------------------------------------------------
(* Claims about GridPositionIterator, checked under SpecGrid.              *)

SeqToSet(s) == {s[i] : i \in 1..Len(s)}

\* The scan has reached the end of the grid: next returned None, or the
\* debug assertion on the number of hits failed where it would have.
GridEnded ==
    \/ gpOut.ret = "none"
    \/ gpOut.failed = "hits <= estimate_max_grid_points()"

\* The call of next did not return: a debug assertion failed.
GridPanicked == gpOut.ret = "panic"

\* C1: every GridCoord returned by GridPositionIterator::next satisfies
\* x0 <= x <= x0 + width and y0 <= y <= y0 + height, for every width,
\* height, dx, dy, offset and angle, at every point of the iteration.
C1_YieldedInsideRectangle ==
    \A p \in SeqToSet(gpOut.yielded) :
        /\ RLe(gpOut.args.x0, p.x)
        /\ RLe(p.x, RAdd(gpOut.args.x0, gpOut.args.width))
        /\ RLe(gpOut.args.y0, p.y)
        /\ RLe(p.y, RAdd(gpOut.args.y0, gpOut.args.height))

\* A rotated grid has yielded a point after skipping candidates that fall
\* outside the rectangle.
C1_Witness ==
    /\ gpOut.ret = "some"
    /\ gpOut.args.angle.b # 0
    /\ gpOut.debug
    /\ gp.misses > 0
    /\ Len(gpOut.yielded) >= 2

\* C3: the number of points yielded before the first None is at most the
\* upper bound of size_hint(), and the debug assertion
\* hits <= estimate_max_grid_points() never fails.
C3_YieldedWithinSizeHint ==
    /\ Len(gpOut.yielded) <= Unwrap(size_hint(gp)[2])
    /\ gpOut.failed # "hits <= estimate_max_grid_points()"

\* The unrotated axis-aligned grid {(x0 + i*dx, y0 + j*dy)} with
\* i, j >= 0, i*dx <= width and j*dy <= height.
AxisAlignedGrid(a) ==
    {Vec(RAdd(a.x0, RMul(I(i), a.dx)), RAdd(a.y0, RMul(I(j), a.dy))) :
        i \in 0..Floor(RDiv(a.width, a.dx)),
        j \in 0..Floor(RDiv(a.height, a.dy))}

QuarterTurn(a) == a.angle.b = 0 /\ a.angle.q \in 0..3

\* C8: at 0, 90, 180 and 270 degrees the set of points yielded by
\* GridPositionIterator is the unrotated axis-aligned grid.
C8_QuarterTurnsYieldAxisAlignedGrid ==
    (QuarterTurn(gpOut.args) /\ (GridEnded \/ GridPanicked))
        => SeqToSet(gpOut.yielded) = AxisAlignedGrid(gpOut.args)

AtAngleZero == gpOut.args.angle = Angle(0, 0)

C12_SizeHintIsPaddedProduct ==
    LET a == gpOut.args
    IN  size_hint(gp) =
            <<0, Some(Ceil(RDiv(RAdd(a.width, a.dx), a.dx))
                      * Ceil(RDiv(RAdd(a.height, a.dy), a.dy)))>>

\* C26: whenever GridPositionIterator::next is about to return a candidate
\* that passed the containment test, its x = start_x + current_x lies
\* between the smallest and the largest threshold: the debug assertions
\* x >= min and x <= max never fail, for every x0, y0 and angle.
C26_RangeAssertionsHold ==
    gpOut.debug => gpOut.failed \notin {"x >= min", "x <= max"}

\* C29: once GridPositionIterator::next has returned None, every later
\* call of next on the same iterator returns None too, for every angle
\* and every dx, dy > 0.
C29_GridNoneStaysNone ==
    gpOut.after >= 1 => gpOut.ret = "none"

----------------------------------------------------------------------------
(* Claims about OptimalIterator, checked under SpecOptimal.                *)

\* p lies inside or on the boundary of the rectangle of a at origin o
\* rotated by a.angle about its center: rotated back, p is in the rectangle.
InsideRotated(p, o, a) ==
    LET sc == sin_cos(a.angle)
        center == VAdd(o, Vec(RMul(a.width, Half), RMul(a.height, Half)))
        q == rotate_around_with(p, center, RNeg(sc[1]), sc[2])
    IN  /\ RLe(o.x, q.x) /\ RLe(q.x, RAdd(o.x, a.width))
        /\ RLe(o.y, q.y) /\ RLe(q.y, RAdd(o.y, a.height))

\* No lattice point inside the rotated rectangle is more than this many
\* steps of d from the lattice's anchor center + off.
Reach(a, d, off) ==
    Ceil(RDiv(RAdd(RMul(RAdd(a.width, a.height), Half), RAbs(off)), d))

\* The brute-force enumeration: the lattice points
\* (center.x + x0 + m*dx, center.y + y0 + k*dy) inside the rotated rectangle.
LatticeInside(o, a) ==
    LET center == VAdd(o, Vec(RMul(a.width, Half), RMul(a.height, Half)))
        M == Reach(a, a.dx, a.x0)
        K == Reach(a, a.dy, a.y0)
        all == {Vec(RAdd(RAdd(center.x, a.x0), RMul(I(m), a.dx)),
                    RAdd(RAdd(center.y, a.y0), RMul(I(k), a.dy))) :
                    m \in -M..M, k \in -K..K}
    IN  {p \in all : InsideRotated(p, o, a)}

\* C2: every point yielded by OptimalIterator::next lies inside or on the
\* boundary of the rotated rectangle, for every angle of the normalized
\* range.
C2_YieldedInsideRotatedRectangle ==
    \A p \in SeqToSet(optOut.yielded) :
        InsideRotated(p, optOut.origin, optOut.args)

\* C4: OptimalIterator yields every lattice point inside or on the boundary
\* of the rotated rectangle and no other point: when it stops, its output
\* set is that of the brute-force enumeration.
C4_YieldsExactlyTheLatticeInside ==
    /\ SeqToSet(optOut.yielded) \subseteq LatticeInside(optOut.origin, optOut.args)
    /\ optOut.ret \in {"none", "hang"} =>
          SeqToSet(optOut.yielded) = LatticeInside(optOut.origin, optOut.args)

\* C5: once OptimalIterator::next has returned None, every later call
\* returns None.
C5_NoneStaysNone == [][optOut.ret = "none" => optOut'.ret = "none"]_vars

\* next has been called again after it returned None at the end of a scan
\* that yielded points.
C5_Witness ==
    /\ optOut.ret = "none"
    /\ optOut.after >= 1
    /\ Len(optOut.yielded) > 0

\* C6: every call of OptimalIterator::next returns, in every reachable
\* cursor state, the state without a column cursor included.
C6_NextReturns == optOut.ret # "hang"

ExamplePoints(xs, ys) == {Vec(I(x), I(y)) : x \in xs, y \in ys}

\* C9 as stated: on the 16 x 10 rectangle with dx = dy = 7, offsets 0 and
\* angle 0 the scanline iterator yields exactly the 6 points
\* {0, 7, 14} x {0, 7}.
C9_ExampleYieldsSixPoints ==
    (optOut.args = ExampleArgs /\ optOut.ret = "none") =>
        /\ Len(optOut.yielded) = 6
        /\ SeqToSet(optOut.yielded) = ExamplePoints({0, 7, 14}, {0, 7})

\* C9, amended: on that rectangle the scanline iterator yields exactly the
\* 3 points (1, 5), (8, 5), (15, 5): its lattice is anchored at the
\* rectangle's center (8, 5), not at its corner.
C9_ExampleYieldsThreePoints ==
    (optOut.args = ExampleArgs /\ optOut.ret = "none") =>
        /\ Len(optOut.yielded) = 3
        /\ SeqToSet(optOut.yielded) = ExamplePoints({1, 8, 15}, {5})

\* The scan of the example rectangle has ended.
C9_Witness ==
    /\ optOut.args = ExampleArgs
    /\ optOut.ret = "none"
    /\ Len(optOut.yielded) > 0

OptimalReturned == optOut.ret \in {"some", "none"}

\* C18 as stated: a call of OptimalIterator::next advances the row cursor
\* at most once and computes find_intersections at most once before it
\* returns.
C18_AtMostOneRowOneScan ==
    OptimalReturned => (optOut.rows <= 1 /\ optOut.scans <= 1)

\* C18, amended: a call that returns has advanced the row cursor once for
\* every row it left, the rows without a lattice point included, so a
\* point returned lies rows * dy below the point returned before it; it
\* has computed find_intersections once for each advance, and once more
\* when it was the first call; the advances of one call are bounded by
\* the rows of the bounding box, not by one.
C18_OneScanPerRowLeft ==
    OptimalReturned =>
        /\ optOut.scans \in {optOut.rows, optOut.rows + 1}
        /\ optOut.scans = optOut.rows + 1 => Len(optOut.yielded) <= 1
        /\ \/ optOut.rows = 0
           \/ RLe(RMul(I(optOut.rows - 1), opt.delta.y),
                  RSub(opt.bl.y, opt.tl.y))
        /\ (optOut.ret = "some" /\ Len(optOut.yielded) >= 2) =>
              optOut.item.y =
                  RAdd(optOut.yielded[Len(optOut.yielded) - 1].y,
                       RMul(I(optOut.rows), opt.delta.y))

\* A call at an angle between 0 and 90 degrees has returned a point after
\* leaving a row without a lattice point: two advances, two intersections.
C18_Witness ==
    /\ optOut.ret = "some"
    /\ optOut.args.angle.q = 0
    /\ optOut.args.angle.b # 0
    /\ optOut.rows >= 2
    /\ optOut.scans >= 2

\* The number of the four edges that the ray of the row at y hits.
EdgesHit(self, y) ==
    LET ray == RowRay([self EXCEPT !.y = y])
        Hit(edge, max_u) ==
            IF IsSome(calculate_intersection_t(
                          ray, LineSegment_normalized(edge), max_u))
            THEN 1 ELSE 0
    IN  Hit(self.rect_top, self.extent.x)
        + Hit(self.rect_bottom, self.extent.x)
        + Hit(self.rect_left, self.extent.y)
        + Hit(self.rect_right, self.extent.y)

\* C21: a row whose ray hits fewer than two of the four edges yields no
\* point, and the row cursor advances past it without error, on the first
\* row as on later rows: every call returns, and every point yielded lies
\* in a row whose ray hits at least two edges.
C21_RowsHittingFewerThanTwoEdgesSkipped ==
    /\ optOut.ret # "hang"
    /\ \A p \in SeqToSet(optOut.yielded) : EdgesHit(opt, p.y) >= 2

\* The smallest value center.y + y0 + k * dy, k an integer, that is >= the
\* top edge tl.y of the bounding box.
FirstRowOf(self) ==
    LET phase == RAdd(self.center.y, self.offset.y)
    IN  RAdd(phase,
             RMul(I(Ceil(RDiv(RSub(self.tl.y, phase), self.delta.y))),
                  self.delta.y))

\* C22: OptimalIterator::new sets the row cursor y to the smallest value
\* center.y + y0 + k * dy, k an integer, that is >= the top edge
\* center.y - extent.y / 2 of the bounding box, and
\* every later value of the row cursor is that first row plus a
\* non-negative integer multiple of dy.
C22_RowCursorOnLattice ==
    LET phase == RAdd(opt.center.y, opt.offset.y)
        first == NewOptimal(optOut.origin, optOut.args).y
    IN  /\ opt.tl.y = RSub(opt.center.y, RMul(opt.extent.y, Half))
        /\ IsMultiple(RSub(first, phase), opt.delta.y)
        /\ RGe(first, opt.tl.y)
        /\ RLt(RSub(first, opt.delta.y), opt.tl.y)
        /\ first = FirstRowOf(opt)
        /\ optOut.ret = "fresh" => opt.y = first
        /\ IsMultiple(RSub(opt.y, first), opt.delta.y)
        /\ RGe(opt.y, first)

\* The row cursor of a rotated grid with a row offset has advanced by two
\* rows from a first row that is not the top edge.
C22_Witness ==
    /\ optOut.args.angle.b # 0
    /\ optOut.args.y0 # Zero
    /\ RGt(NewOptimal(optOut.origin, optOut.args).y, opt.tl.y)
    /\ RGe(opt.y, RAdd(NewOptimal(optOut.origin, optOut.args).y,
                       RMul(I(2), opt.delta.y)))

\* C23: the first x that OptimalXIterator produces for a row span is the
\* smallest value center.x + x0 + m * dx, m an integer, that is >= the
\* x of the row's start, so every x yielded in any row differs from
\* center.x + x0 by an integer multiple of dx.  A call that has scanned a
\* row and returned a point has returned the first x of that row.
C23_FirstColumnOnLattice ==
    LET phase == RAdd(opt.center.x, opt.offset.x)
        span == find_intersections(opt, RowRay(opt))
    IN  /\ \A p \in SeqToSet(optOut.yielded) :
              IsMultiple(RSub(p.x, phase), opt.delta.x)
        /\ IsSome(opt.x_iter) =>
              IsMultiple(RSub(Unwrap(opt.x_iter).x, phase), opt.delta.x)
        /\ (optOut.ret = "some" /\ optOut.scans >= 1) =>
              /\ IsSome(span)
              /\ RGe(optOut.item.x, Unwrap(span)[1].x)
              /\ RLt(RSub(optOut.item.x, opt.delta.x), Unwrap(span)[1].x)

\* A call has scanned a row of a rotated grid with a column offset and
\* returned its first point, which is not the row's start.
C23_Witness ==
    /\ optOut.ret = "some"
    /\ optOut.scans >= 1
    /\ optOut.args.angle.b # 0
    /\ optOut.args.x0 # Zero
    /\ Len(optOut.yielded) >= 2
    /\ RGt(optOut.item.x,
           Unwrap(find_intersections(opt, RowRay(opt)))[1].x)

\* The four corners of the rectangle of the arguments a at origin o,
\* rotated around its center.
RotatedCorners(o, a) ==
    LET c == Corners(o, a)
        center == VMul(VAdd(VAdd(VAdd(c.tl, c.tr), c.bl), c.br), Rat(1, 4))
    IN  {rotate_around(p, center, a.angle) : p \in {c.tl, c.tr, c.bl, c.br}}

\* C25: the box centered at the rectangle's center with the extent
\* computed at construction has a non-negative extent, contains the four
\* rotated corners, and is the smallest axis-aligned box that does: each
\* of its four sides passes through a corner.
C25_ExtentIsBoundingBox ==
    LET ps == RotatedCorners(optOut.origin, optOut.args)
    IN  /\ RGe(opt.extent.x, Zero)
        /\ RGe(opt.extent.y, Zero)
        /\ \A p \in ps :
              /\ RLe(opt.tl.x, p.x) /\ RLe(p.x, opt.br.x)
              /\ RLe(opt.tl.y, p.y) /\ RLe(p.y, opt.br.y)
        /\ \E p \in ps : p.x = opt.tl.x
        /\ \E p \in ps : p.x = opt.br.x
        /\ \E p \in ps : p.y = opt.tl.y
        /\ \E p \in ps : p.y = opt.br.y

\* C27: a call of OptimalIterator::next changes only the row cursor y and
\* the column cursor x_iter: center, extent, delta, offset, the corners
\* of the bounding box, the four edges of the rectangle and every other
\* field have the same value after the call as before it, whether it
\* returns Some or None.
C27_NextChangesOnlyCursors ==
    [][/\ DOMAIN opt' = DOMAIN opt
       /\ \A f \in (DOMAIN opt) \ {"y", "x_iter"} : opt'[f] = opt[f]]_vars

\* Calls have returned points of two rows and then None, and have moved
\* both cursors from where the constructor left them.
C27_Witness ==
    /\ optOut.ret = "none"
    /\ Len(optOut.yielded) >= 2
    /\ optOut.yielded[1].y # optOut.yielded[Len(optOut.yielded)].y
    /\ opt.y # NewOptimal(optOut.origin, optOut.args).y
    /\ opt.x_iter # None
    /\ opt = [NewOptimal(optOut.origin, optOut.args)
                 EXCEPT !.y = opt.y, !.x_iter = opt.x_iter]

\* C28: OptimalIterator yields its points in row-major order: the y of
\* the points yielded never decreases, between two consecutive points of
\* the same y the x increases by exactly dx, and no point is yielded
\* twice.
C28_RowMajorOrder ==
    LET ps == optOut.yielded
    IN  /\ \A i \in 1..(Len(ps) - 1) :
              /\ RLe(ps[i].y, ps[i + 1].y)
              /\ ps[i].y = ps[i + 1].y =>
                    ps[i + 1].x = RAdd(ps[i].x, opt.delta.x)
        /\ \A i, j \in 1..Len(ps) : i # j => ps[i] # ps[j]

\* A rotated grid has yielded two points of one row and then a point of a
\* later row.
C28_Witness ==
    /\ optOut.args.angle.b # 0
    /\ Len(optOut.yielded) >= 3
    /\ \E i \in 1..(Len(optOut.yielded) - 2) :
          /\ optOut.yielded[i].y = optOut.yielded[i + 1].y
          /\ RLt(optOut.yielded[i + 1].y, optOut.yielded[i + 2].y)

----------------------------------------------------------------------------
(* Two scanline iterators over abutting rectangles.                        *)

\* The first rectangle is a square at the origin; the second shares its
\* whole right edge (e wide, as high) or its whole bottom edge (as wide,
\* e high). Both are scanned with the same angle, steps and offsets.
PairSides == {"right", "below"}

PairArgs == {a \in OptimalArgs : a.width = a.height}

SecondOrigin(a, side) ==
    IF side = "right" THEN Vec(a.width, Zero) ELSE Vec(Zero, a.height)

SecondArgs(a, side, e) ==
    IF side = "right" THEN [a EXCEPT !.width = e] ELSE [a EXCEPT !.height = e]

InitPair ==
    /\ \E a \in PairArgs, side \in PairSides, e \in Widths :
          /\ opt = NewOptimal(Origin, a)
          /\ optOut = Fresh(Origin, a)
          /\ opt2 = NewOptimal(SecondOrigin(a, side), SecondArgs(a, side, e))
          /\ opt2Out = Fresh(SecondOrigin(a, side), SecondArgs(a, side, e))
    /\ gp = Idle /\ gpOut = Idle /\ call = Idle

\* The iterators share no state, so the order of their calls does not
\* matter: the caller drains the first, then the second.
Drained(out) == out.ret \in {"none", "hang"}

PairNextFirst ==
    /\ ~Drained(optOut)
    /\ LET c == OptimalIterator_next(opt)
       IN  /\ opt' = c.self
           /\ optOut' = Observe(optOut, c)
    /\ UNCHANGED <<gp, gpOut, opt2, opt2Out, call>>

PairNextSecond ==
    /\ Drained(optOut)
    /\ ~Drained(opt2Out)
    /\ LET c == OptimalIterator_next(opt2)
       IN  /\ opt2' = c.self
           /\ opt2Out' = Observe(opt2Out, c)
    /\ UNCHANGED <<gp, gpOut, opt, optOut, call>>

PairNext == PairNextFirst \/ PairNextSecond

SpecPair == InitPair /\ [][PairNext]_vars

\* C7 as stated: the points of the two grids belong to one lattice: between
\* any point of one and any point of the other the x-difference is an
\* integer multiple of dx and the y-difference an integer multiple of dy.
C7_AbuttingGridsShareOneLattice ==
    \A p \in SeqToSet(optOut.yielded), q \in SeqToSet(opt2Out.yielded) :
        /\ IsMultiple(RSub(p.x, q.x), optOut.args.dx)
        /\ IsMultiple(RSub(p.y, q.y), optOut.args.dy)

\* C7, amended: each grid is phase-locked to the center of its own
\* rectangle: the difference between a point of one and a point of the
\* other is the difference of the two centers plus integer multiples of dx
\* and dy. The grids share one lattice only when the centers are whole
\* steps apart.
C7_GridsLockedToOwnCenter ==
    \A p \in SeqToSet(optOut.yielded), q \in SeqToSet(opt2Out.yielded) :
        /\ IsMultiple(RSub(RSub(p.x, q.x), RSub(opt.center.x, opt2.center.x)),
                      optOut.args.dx)
        /\ IsMultiple(RSub(RSub(p.y, q.y), RSub(opt.center.y, opt2.center.y)),
                      optOut.args.dy)

\* Both rectangles have been scanned to the end at an angle that is not a
\* quarter turn, and both grids have points.
C7_Witness ==
    /\ optOut.ret = "none" /\ opt2Out.ret = "none"
    /\ Len(optOut.yielded) > 0 /\ Len(opt2Out.yielded) > 0
    /\ optOut.args.angle.b # 0

----------------------------------------------------------------------------
(* Single calls: the constructor and the functions of the primitives.      *)

\* A call that has been made and has not ended yet.
Pending(fn, args) ==
    [fn |-> fn, args |-> args, ended |-> "pending", ret |-> Idle,
     failed |-> "", before |-> Idle]

\* The call made next by a caller that uses the result of the call c.
Then(c, fn, args) == [Pending(fn, args) EXCEPT !.before = c]

\* How a call ends: it returns a value, it panics on a failed assertion,
\* or it never returns.
Returned(c, v) == [c EXCEPT !.ended = "returned", !.ret = v]
Panicked(c, assertion) == [c EXCEPT !.ended = "panicked", !.failed = assertion]
NeverReturns(c) == [c EXCEPT !.ended = "never"]

\* The angles given to the normalizations: whole and rotated quarter turns
\* on both sides of the range, and the huge angles.
MaxQuarter == 8
CallAngles ==
    {Angle(q, b) : q \in -MaxQuarter..MaxQuarter, b \in 0..2}
    \cup {HugeAngle(-1), HugeAngle(1)}

\* The arguments given to GridPositionIterator::new: sizes and spacings of
\* either sign, zero and NaN.
AnySizes == {I(-1), Zero, Half, I(1), I(2), NaN}
AnySteps == {I(-1), Zero, I(1), NaN}
NewAngles == GridAngles \cup {HugeAngle(-1), HugeAngle(1)}
NewArgs ==
    {Args(w, h, dx, dy, x0, y0, a) :
        w \in AnySizes, h \in AnySizes, dx \in AnySteps, dy \in AnySteps,
        x0 \in {Zero}, y0 \in {Rat(-1, 2), Zero}, a \in NewAngles}

\* The coordinates given to GridCoord::partial_cmp.
CoordValues == {I(-1), Zero, I(1), NaN}
Coords == {Vec(x, y) : x \in CoordValues, y \in CoordValues}

\* The points and pivots, and the angles of the rotations.
MaxCoord == 1
Points == {Vec(I(x), I(y)) : x \in -MaxCoord..MaxCoord,
                             y \in -MaxCoord..MaxCoord}
RotationAngles == {Angle(q, b) : q \in -2..MaxTurn, b \in 0..2}

\* The lines given to calculate_intersection_t, built by Line::new, and
\* the bounds max_u.
UnitDirections ==
    {Vec(I(1), Zero), Vec(Zero, I(1)), Vec(I(-1), Zero), Vec(Zero, I(-1)),
     Vec(I(3), I(4)), Vec(I(4), I(-3))}
UnitLines == {Line_new(o, d) : o \in Points, d \in UnitDirections}
MaxUs == {Half, One, Rat(3, 2)}

\* The lines given to intersect_with_line: origins and directions of any
\* length, those of tests::test_intersect_with_1..4 among them.
AnyLine(ox, oy, dx, dy) ==
    [origin |-> Vec(I(ox), I(oy)), direction |-> Vec(I(dx), I(dy))]
AnyDirections ==
    {Vec(I(1), Zero), Vec(Zero, I(-1)), Vec(I(2), I(2)), Vec(I(2), I(-1)),
     Vec(I(-1), I(2)), Vec(I(-2), I(-2))}
AnyLines ==
    {[origin |-> o, direction |-> d] : o \in Points, d \in AnyDirections}
    \cup {AnyLine(2, 3, 2, 2), AnyLine(1, 5, 2, -1), AnyLine(1, 1, 2, 2),
          AnyLine(2, 1, -1, 2), AnyLine(0, 1, 1, 0)}

\* The arguments of find_t: those of the crate's tests among them.
FindStarts == {I(2), Zero, Rat(-1, 2)}
FindSteps == {Zero, Half, I(1), Rat(3, 2)}
FindTargets == {Rat(k, 2) : k \in (-2 * MaxTarget)..(2 * MaxTarget)}

InitCall ==
    /\ \/ \E a \in NewArgs : call = Pending("GridPositionIterator::new", a)
       \/ \E a \in CallAngles : call = Pending("normalize_angle", a)
       \/ \E a \in CallAngles : call = Pending("Angle::normalize", a)
       \/ \E a \in Coords, b \in Coords :
              call = Pending("GridCoord::partial_cmp", <<a, b>>)
       \/ \E v \in Points, pivot \in Points, angle \in RotationAngles :
              call = Pending("Vector::rotate_around", <<v, pivot, angle>>)
       \/ \E self \in UnitLines, other \in UnitLines, max_u \in MaxUs :
              call = Pending("Line::calculate_intersection_t",
                             <<self, other, max_u>>)
       \/ \E self \in AnyLines, other \in AnyLines :
              call = Pending("Line::intersect_with_line", <<self, other>>)
       \/ \E x0 \in FindStarts, dx \in FindSteps, x1 \in FindTargets :
              call = Pending("find_t", <<x0, dx, x1>>)
    /\ gp = Idle /\ gpOut = Idle /\ opt = Idle /\ optOut = Idle
    /\ opt2 = Idle /\ opt2Out = Idle

\* GridPositionIterator::new runs: the assertions of lines 115-116, the
\* normalization of line 118, and the construction of the iterator.
CallNew ==
    /\ call.fn = "GridPositionIterator::new"
    /\ call.ended = "pending"
    /\ LET a == call.args
       IN  call' =
             IF ~RGt(a.width, Zero) THEN Panicked(call, "width > 0.0")
             ELSE IF ~RGt(a.height, Zero) THEN Panicked(call, "height > 0.0")
             ELSE IF ~normalize_angle(a.angle).returns THEN NeverReturns(call)
             ELSE Returned(call, NewGrid(a))
    /\ UNCHANGED <<gp, gpOut, opt, optOut, opt2, opt2Out>>

\* GridPositionIterator::normalize_angle runs.
CallNormalizeAngle ==
    /\ call.fn = "normalize_angle"
    /\ call.ended = "pending"
    /\ LET r == normalize_angle(call.args)
       IN  call' = IF r.returns THEN Returned(call, r.alpha)
                   ELSE NeverReturns(call)
    /\ UNCHANGED <<gp, gpOut, opt, optOut, opt2, opt2Out>>

\* AngleOps::normalize runs.
CallAngleNormalize ==
    /\ call.fn = "Angle::normalize"
    /\ call.ended = "pending"
    /\ LET r == Angle_normalize(call.args)
       IN  call' = IF r.returns THEN Returned(call, r.alpha)
                   ELSE NeverReturns(call)
    /\ UNCHANGED <<gp, gpOut, opt, optOut, opt2, opt2Out>>

\* GridCoord::partial_cmp runs.
CallPartialCmp ==
    /\ call.fn = "GridCoord::partial_cmp"
    /\ call.ended = "pending"
    /\ call' = Returned(call,
                        GridCoord_partial_cmp(call.args[1], call.args[2]))
    /\ UNCHANGED <<gp, gpOut, opt, optOut, opt2, opt2Out>>

\* Vector::rotate_around runs.
CallRotateAround ==
    /\ call.fn = "Vector::rotate_around"
    /\ call.ended = "pending"
    /\ call' = Returned(call, rotate_around(call.args[1], call.args[2],
                                            call.args[3]))
    /\ UNCHANGED <<gp, gpOut, opt, optOut, opt2, opt2Out>>

\* The caller rotates the point it was returned back: by the negated
\* angle, around the same pivot.
CallRotateBack ==
    /\ call.fn = "Vector::rotate_around"
    /\ call.ended = "returned"
    /\ call.before = Idle
    /\ call' = Then(call, "Vector::rotate_around",
                    <<call.ret, call.args[2], Angle_neg(call.args[3])>>)
    /\ UNCHANGED <<gp, gpOut, opt, optOut, opt2, opt2Out>>

\* Line::calculate_intersection_t runs.
CallIntersectionT ==
    /\ call.fn = "Line::calculate_intersection_t"
    /\ call.ended = "pending"
    /\ call' = Returned(call,
                        calculate_intersection_t(call.args[1], call.args[2],
                                                 call.args[3]))
    /\ UNCHANGED <<gp, gpOut, opt, optOut, opt2, opt2Out>>

\* Line::intersect_with_line runs.
CallIntersectWithLine ==
    /\ call.fn = "Line::intersect_with_line"
    /\ call.ended = "pending"
    /\ call' = Returned(call, intersect_with_line(call.args[1], call.args[2]))
    /\ UNCHANGED <<gp, gpOut, opt, optOut, opt2, opt2Out>>

\* find_t runs.
CallFindT ==
    /\ call.fn = "find_t"
    /\ call.ended = "pending"
    /\ call' = Returned(call, find_t(call.args[1], call.args[2],
                                     call.args[3]))
    /\ UNCHANGED <<gp, gpOut, opt, optOut, opt2, opt2Out>>

CallNext ==
    \/ CallNew
    \/ CallIntersectionT
    \/ CallIntersectWithLine
    \/ CallRotateAround
    \/ CallRotateBack
    \/ CallPartialCmp
    \/ CallNormalizeAngle
    \/ CallAngleNormalize
    \/ CallFindT

SpecCall == InitCall /\ [][CallNext]_vars

Called(fn) == call.fn = fn /\ call.ended # "pending"

\* C13: GridPositionIterator::new panics whenever width <= 0 or
\* height <= 0, before any iterator is created, and returns an iterator
\* for every width > 0 and height > 0, whatever dx, dy, the offsets and the
\* angle are: the check of width and height is its only failure.
C13_NewFailsOnlyOnSize ==
    Called("GridPositionIterator::new") =>
        LET a == call.args
        IN  /\ (RLe(a.width, Zero) \/ RLe(a.height, Zero)) =>
                  call.ended = "panicked" /\ call.ret = Idle
            /\ (RGt(a.width, Zero) /\ RGt(a.height, Zero)) =>
                  call.ended = "returned"

\* C14: GridCoord::partial_cmp orders first by y and then by x: Less when
\* a.y < b.y, Greater when a.y > b.y, the ordering of a.x against b.x when
\* a.y == b.y, so that Equal is returned only if both x and y are equal.
C14_OrderedByYThenX ==
    Called("GridCoord::partial_cmp") =>
        LET a == call.args[1]
            b == call.args[2]
        IN  /\ RLt(a.y, b.y) => call.ret = Some("Less")
            /\ RGt(a.y, b.y) => call.ret = Some("Greater")
            /\ (~IsNaN(a.y) /\ a.y = b.y) =>
                  call.ret = f64_partial_cmp(a.x, b.x)
            /\ call.ret = Some("Equal") => (a.x = b.x /\ a.y = b.y)

\* C15: for every finite angle, Angle::normalize and
\* GridPositionIterator::normalize_angle terminate and return a value in
\* the range [-PI/2, PI/2).
C15_NormalizeReturnsInRange ==
    (Called("normalize_angle") \/ Called("Angle::normalize")) =>
        /\ call.ended = "returned"
        /\ call.ret.q \in {-1, 0}

\* C16: rotating p by an angle around a pivot and rotating the result by
\* the negated angle around the same pivot returns p, exactly when
\* sin^2 + cos^2 = 1 holds exactly (as it does for every angle here).
C16_RotateThereAndBack ==
    (Called("Vector::rotate_around") /\ call.before # Idle) =>
        /\ call.args[2] = call.before.args[2]
        /\ call.ret = call.before.args[1]

\* A point has been rotated by a rotated angle around a pivot other than
\* itself, to another point, and back.
C16_Witness ==
    /\ Called("Vector::rotate_around")
    /\ call.before # Idle
    /\ call.before.args[3].b # 0
    /\ call.before.args[1] # call.before.args[2]
    /\ call.before.ret # call.before.args[1]
    /\ call.ret = call.before.args[1]

\* The point p lies on the line l.
OnLine(p, l) == cross(VSub(p, l.origin), l.direction) = Zero

\* The two lines are parallel as calculate_intersection_t takes it: the
\* determinant of their directions has a magnitude below 1e-6.
Parallel(self, other) ==
    RLt(RAbs(cross(self.direction, other.direction)), Epsilon)

\* The point where two lines that are not parallel cross.
CrossingPoint(self, other) ==
    Line_project_out(self,
        RDiv(cross(other.direction, VSub(self.origin, other.origin)),
             cross(self.direction, other.direction)))

\* The position of p along the line l, from its origin, in units of its
\* unit direction.
PositionAlong(p, l) == dot(VSub(p, l.origin), l.direction)

\* C17: calculate_intersection_t(other, max_u) returns Some(t) only if the
\* lines are not parallel, origin + t*direction lies on other, and the
\* position u of that point along other satisfies 0 <= u <= max_u; when
\* the lines are parallel or u lies outside [0, max_u] it returns None.
C17_IntersectionWithinMaxU ==
    Called("Line::calculate_intersection_t") =>
        LET self == call.args[1]
            other == call.args[2]
            max_u == call.args[3]
            InRange(u) == RLe(Zero, u) /\ RLe(u, max_u)
        IN  /\ IsSome(call.ret) =>
                  /\ ~Parallel(self, other)
                  /\ OnLine(Line_project_out(self, Unwrap(call.ret)), other)
                  /\ InRange(PositionAlong(
                         Line_project_out(self, Unwrap(call.ret)), other))
            /\ Parallel(self, other) => call.ret = None
            /\ (~Parallel(self, other)
                    /\ ~InRange(PositionAlong(CrossingPoint(self, other),
                                              other)))
                  => call.ret = None

\* C19: intersect_with_line returns None exactly when the directions of
\* the two lines are parallel (their cross product is zero), and otherwise
\* Some(p) with p on both lines, whatever the lengths of the directions
\* and the origins.
C19_IntersectionOnBothLines ==
    Called("Line::intersect_with_line") =>
        LET self == call.args[1]
            other == call.args[2]
        IN  /\ call.ret = None <=>
                  cross(self.direction, other.direction) = Zero
            /\ IsSome(call.ret) =>
                  /\ OnLine(Unwrap(call.ret), self)
                  /\ OnLine(Unwrap(call.ret), other)

\* C20: Vector::rotate_around returns the point unchanged when the angle
\* is 0, whatever the pivot, and when the pivot is the point itself,
\* whatever the angle; a rotation by 90 degrees maps the offset (dx, dy)
\* from the pivot to (-dy, dx): (1,0) around (1,1) becomes (2,1).
C20_RotateAroundCases ==
    Called("Vector::rotate_around") =>
        LET v == call.args[1]
            pivot == call.args[2]
            angle == call.args[3]
            d == VSub(v, pivot)
        IN  /\ angle = Angle(0, 0) => call.ret = v
            /\ pivot = v => call.ret = v
            /\ angle = Angle(1, 0) =>
                  call.ret = VAdd(pivot, Vec(RNeg(d.y), d.x))
            /\ (v = Vec(I(1), Zero) /\ pivot = Vec(I(1), I(1))
                    /\ angle = Angle(1, 0)) =>
                  call.ret = Vec(I(2), I(1))

\* The point (1,0) has been rotated by 90 degrees around (1,1).
C20_Witness ==
    /\ Called("Vector::rotate_around")
    /\ call.before = Idle
    /\ call.args = <<Vec(I(1), Zero), Vec(I(1), I(1)), Angle(1, 0)>>
    /\ call.ret = Vec(I(2), I(1))

\* C30: for dx > 0, find_t(x0, dx, x1) returns Some(t) with t the smallest
\* integer, negative ones included, such that x0 + t * dx >= x1, that is
\* ceil((x1 - x0) / dx); for dx = 0 it returns Some(x0) when x1 <= x0 and
\* None when x1 > x0.
C30_FindTSmallestStep ==
    Called("find_t") =>
        LET x0 == call.args[1]
            dx == call.args[2]
            x1 == call.args[3]
            Least(t) ==
                /\ t[2] = 1
                /\ RGe(RAdd(x0, RMul(t, dx)), x1)
                /\ RLt(RAdd(x0, RMul(RSub(t, I(1)), dx)), x1)
        IN  /\ call.ended = "returned"
            /\ RGt(dx, Zero) =>
                  /\ IsSome(call.ret)
                  /\ Least(Unwrap(call.ret))
            /\ (dx = Zero /\ RLe(x1, x0)) => call.ret = Some(x0)
            /\ (dx = Zero /\ RGt(x1, x0)) => call.ret = None

\* find_t(2, 1.5, -7) has returned Some(-6), as in test_find_t_neg.
C30_Witness ==
    /\ Called("find_t")
    /\ call.args = <<I(2), Rat(3, 2), I(-7)>>
    /\ call.ret = Some(I(-6))

----------------------------------------------------------------------------
(* The column cursor alone: opt holds an OptimalXIterator, optOut what its *)
(* caller has seen of it.                                                  *)

SpanEnds == {Rat(k, 2) : k \in -MaxSpan..MaxSpan}
ColumnSteps == {Half, I(1), Rat(3, 2)}

\* Arguments of OptimalXIterator::new; the row is the row y = 0.
ColumnArgs ==
    [center : {Vec(Zero, Zero), Vec(Half, Zero)},
     extent : {Vec(I(1), I(1)), Vec(I(3), I(1))},
     row_start : {Vec(x, Zero) : x \in SpanEnds},
     row_end : {Vec(x, Zero) : x \in SpanEnds},
     dx : ColumnSteps,
     x0 : Offsets]

NewColumn(a) ==
    OptimalXIterator_new(Zero, a.center, a.extent, a.row_start, a.row_end,
                         a.dx, a.x0)

InitColumn ==
    /\ \E a \in ColumnArgs :
          /\ opt = NewColumn(a)
          /\ optOut = [args |-> a, ret |-> "fresh", yielded |-> <<>>,
                       after |-> 0, before |-> NewColumn(a)]
    /\ gp = Idle /\ gpOut = Idle /\ opt2 = Idle /\ opt2Out = Idle
    /\ call = Idle

\* The caller calls OptimalXIterator::next.
ColumnNext ==
    /\ optOut.ret = "none" => optOut.after < MaxAfter
    /\ LET r == OptimalXIterator_next(opt)
       IN  /\ opt' = r[2]
           /\ optOut' =
                [optOut EXCEPT
                   !.ret = IF IsSome(r[1]) THEN "some" ELSE "none",
                   !.yielded = IF IsSome(r[1]) THEN Append(@, Unwrap(r[1]))
                               ELSE @,
                   !.after = IF optOut.ret = "none" THEN @ + 1 ELSE @,
                   !.before = opt]
    /\ UNCHANGED <<gp, gpOut, opt2, opt2Out, call>>

SpecColumn == InitColumn /\ [][ColumnNext]_vars

\* C24: OptimalXIterator yields first, first + dx, ... in this order, every
\* such value that is <= row_end, a value equal to row_end included, and
\* none greater than row_end; a call that returns None leaves the cursor
\* as it was, and every call after the first None returns None.
C24_ColumnsUpToRowEnd ==
    LET first == NewColumn(optOut.args).x
        dx == optOut.args.dx
        row_end == optOut.args.row_end.x
        n == Len(optOut.yielded)
    IN  /\ \A i \in 1..n :
              /\ optOut.yielded[i] = RAdd(first, RMul(I(i - 1), dx))
              /\ RLe(optOut.yielded[i], row_end)
        /\ optOut.ret = "none" =>
              /\ RGt(RAdd(first, RMul(I(n), dx)), row_end)
              /\ opt = optOut.before
        /\ optOut.after >= 1 => optOut.ret = "none"

\* The cursor has yielded several values, the last one equal to row_end,
\* then None, and None again.
C24_Witness ==
    /\ Len(optOut.yielded) >= 3
    /\ optOut.yielded[Len(optOut.yielded)] = optOut.args.row_end.x
    /\ optOut.ret = "none"
    /\ optOut.after >= 2

====
